---- MODULE Spec2Model ----
(***************************************************************************)
(* PrimeKit: square-free-integer (SFI) encoding and divisibility filter.   *)
(*                                                                         *)
(* The repository holds two generations of the engine:                     *)
(*   - src/src/cpp/primekit.cpp  : two tiers (master / local), hardcoded   *)
(*     prime dictionaries, initialize_data + perform_filter(master, local) *)
(*   - src/unnamed/part_000      : one flattened tier, dictionaries and    *)
(*     inventory loaded from JSON text, perform_filter(query_sfi)          *)
(* Both are modelled.  Five specifications share the definitions:          *)
(*   SpecEnc  - the pure encoder encode_sfi / get_prime                    *)
(*   Spec     - the JSON engine over inventories of several records        *)
(*   SpecRec  - the JSON engine over one record of every attribute shape   *)
(*   SpecTier - the two-tier engine                                        *)
(*   SpecPage - the page (src/src/js/main.js) driving the JSON engine      *)
(*                                                                         *)
(* uint64_t is modelled as an unsigned integer of WordBits bits: every     *)
(* product is reduced modulo 2^WordBits exactly where the C++ multiplies   *)
(* without a guard, so a missing or wrong guard shows as a wrapped value.  *)
(***************************************************************************)
EXTENDS Integers, Sequences, FiniteSets, TLC

\* ------------------------------------------------------------------ bounds
\* Width of the unsigned machine word standing for uint64_t.
WordBits == 6
\* Longest value array of one attribute key in a record.
MaxVals == 2
\* Longest relevant_keys vector handed to encode_sfi.
MaxKeys == 2
\* Longest inventory array.
MaxItems == 2

\* std::numeric_limits<uint64_t>::max() / UINT64_MAX at the modelled width.
max_val == 2^WordBits - 1

\* Unsigned multiplication of the machine: wraps modulo 2^WordBits.
umul(a, b) == (a * b) % (max_val + 1)

\* ------------------------------------------------------------ small helpers
\* Sequences over S of length at most n.
SeqsUpTo(S, n) == UNION {[1..k -> S] : k \in 0..n}

\* Partial functions from subsets of D into R.
PartialFns(D, R) == UNION {[X -> R] : X \in SUBSET D}

\* The mathematical (unbounded) product of a sequence of integers.
RECURSIVE Product(_)
Product(s) == IF s = <<>> THEN 1 ELSE Head(s) * Product(Tail(s))

\* Concatenation of a sequence of sequences.
RECURSIVE Flatten(_)
Flatten(ss) == IF ss = <<>> THEN <<>> ELSE Head(ss) \o Flatten(Tail(ss))

\* The subsequence of s at the indices in keep, from index i on.
RECURSIVE SelectSeqIdx(_, _, _)
SelectSeqIdx(s, keep, i) ==
    IF i > Len(s) THEN <<>>
    ELSE (IF i \in keep THEN <<s[i]>> ELSE <<>>) \o SelectSeqIdx(s, keep, i + 1)

\* =========================================================================
\* Part 1.  The pure encoder: get_prime and encode_sfi.
\* =========================================================================

\* A PrimeDictionary is a function key -> (value -> number) on the keys and
\* values it holds; a std::map / std::unordered_map lookup is a DOMAIN test.

\* PrimeKit::get_prime: the number of (key, value), or 1 when the key is
\* absent, the value is absent, or the stored number is not greater than 1.
get_prime(dict, key, value) ==
    IF key \in DOMAIN dict
    THEN IF value \in DOMAIN dict[key]
         THEN IF dict[key][value] > 1 THEN dict[key][value] ELSE 1
         ELSE 1
    ELSE 1

\* A guard that never fires: the multiplication is then left unguarded.
would_overflow_never(sfi, prime) == FALSE

\* The overflow guard of encode_sfi: sfi > max_val / prime (integer division).
would_overflow(sfi, prime) == sfi > (max_val \div prime)

\* The inner loop of encode_sfi over the values of one key.  The result is
\* a record: ovf is TRUE once the guard fired (the function returns 1).
RECURSIVE encode_values(_, _, _, _)
encode_values(dict, key, values, sfi) ==
    IF values = <<>> THEN [ovf |-> FALSE, sfi |-> sfi]
    ELSE LET prime == get_prime(dict, key, Head(values)) IN
         IF prime > 1
         THEN IF would_overflow(sfi, prime)
              THEN [ovf |-> TRUE, sfi |-> 1]
              ELSE encode_values(dict, key, Tail(values), umul(sfi, prime))
         ELSE encode_values(dict, key, Tail(values), sfi)

\* The outer loop of encode_sfi over relevant_keys.
RECURSIVE encode_keys(_, _, _, _)
encode_keys(attributes, relevant_keys, dict, sfi) ==
    IF relevant_keys = <<>> THEN sfi
    ELSE LET key == Head(relevant_keys) IN
         IF key \in DOMAIN attributes
         THEN LET r == encode_values(dict, key, attributes[key], sfi) IN
              IF r.ovf THEN 1
              ELSE encode_keys(attributes, Tail(relevant_keys), dict, r.sfi)
         ELSE encode_keys(attributes, Tail(relevant_keys), dict, sfi)

\* PrimeKit::encode_sfi of the multi-valued engine (ItemAttributes).
encode_sfi(attributes, relevant_keys, dict) ==
    encode_keys(attributes, relevant_keys, dict, 1)

\* PrimeKit::encode_sfi of the two-tier engine (ItemData: one string per key).
RECURSIVE encode_item_keys(_, _, _, _)
encode_item_keys(item, relevant_keys, dict, sfi) ==
    IF relevant_keys = <<>> THEN sfi
    ELSE LET key == Head(relevant_keys) IN
         IF key \in DOMAIN item
         THEN LET prime == get_prime(dict, key, item[key]) IN
              IF prime > 1
              THEN IF sfi > (max_val \div prime)
                   THEN 1
                   ELSE encode_item_keys(item, Tail(relevant_keys), dict,
                                         umul(sfi, prime))
              ELSE encode_item_keys(item, Tail(relevant_keys), dict, sfi)
         ELSE encode_item_keys(item, Tail(relevant_keys), dict, sfi)

encode_sfi_ItemData(item, relevant_keys, dict) ==
    encode_item_keys(item, relevant_keys, dict, 1)

\* =========================================================================
\* Part 2.  The JSON engine (src/unnamed/part_000): documents.
\* =========================================================================
\* A parsed JSON document is modelled by the shape tests the code applies to
\* it (is_object, is_array, contains, is_number_unsigned, is_string).

\* --- primes document ------------------------------------------------------
\* form "parse_error"        : json::parse throws
\*      "no_section"         : no "attribute_to_prime" member
\*      "section_not_object" : the member is not an object
\*      "object"             : section maps attribute key -> value map
\* A value map is [is_object, entries]; an entry is [is_unsigned, n].
Unsigned(n)  == [is_unsigned |-> TRUE, n |-> n]
NotUnsigned  == [is_unsigned |-> FALSE, n |-> 0]
ValueMap(es) == [is_object |-> TRUE, entries |-> es]
NotAnObject  == [is_object |-> FALSE, entries |-> <<>>]
PrimesObject(section) == [form |-> "object", section |-> section]
MalformedPrimes(form) == [form |-> form, section |-> <<>>]
NoPrimesDoc == MalformedPrimes("none")

\* A test that stores every unsigned entry, 0 and 1 included.
entry_stored_any(e) == e.is_unsigned

\* The entry is stored: an unsigned integer greater than 1.
entry_stored(e) == e.is_unsigned /\ e.n > 1

\* The loops of initializePrimesFromJson: attribute_prime_map[attr_key][val_key]
\* = prime for every entry that passes both tests.  operator[] creates a key
\* only when one of its entries is stored.
load_primes_section(section) ==
    LET stored(k) == IF section[k].is_object
                     THEN {v \in DOMAIN section[k].entries :
                              entry_stored(section[k].entries[v])}
                     ELSE {}
        keys == {k \in DOMAIN section : stored(k) # {}}
    IN [k \in keys |-> [v \in stored(k) |-> section[k].entries[v].n]]

\* Whether initializePrimesFromJson throws on the document.
primes_throw(doc) == doc.form \in {"parse_error", "no_section"}

\* attribute_prime_map after initializePrimesFromJson: cleared first, filled
\* only from an object section.
primes_after(doc) ==
    IF doc.form = "object" THEN load_primes_section(doc.section)
    ELSE [k \in {} |-> <<>>]

\* --- inventory document ---------------------------------------------------
\* form "parse_error" | "not_array" | "array" with items.
\* An item is [is_object, has_id, id_is_string, id, has_attributes,
\* attributes_is_object, attributes]; attributes maps attribute key to
\* [is_array, elems]; an element is [is_string, s].
Str(s)       == [is_string |-> TRUE, s |-> s]
NonStr       == [is_string |-> FALSE, s |-> "7"]
Array(elems) == [is_array |-> TRUE, elems |-> elems]
Bare(s)      == [is_array |-> FALSE, elems |-> <<Str(s)>>]
Item(id, attributes) ==
    [is_object |-> TRUE, has_id |-> TRUE, id_is_string |-> TRUE, id |-> id,
     has_attributes |-> TRUE, attributes_is_object |-> TRUE,
     attributes |-> attributes]
InventoryArray(items)    == [form |-> "array", items |-> items]
MalformedInventory(form) == [form |-> form, items |-> <<>>]

\* nlohmann::json objects are std::map: items() visits keys in sorted order.
SortedKeys == <<"brand", "color", "size">>

\* The overflow test of initializeFromJson: prime > 0 && current > MAX / prime.
sku_overflow(prime, current_sfi) ==
    prime > 0 /\ current_sfi > (max_val \div prime)

\* The loop over the elements of one attribute's array.
RECURSIVE sku_values(_, _, _)
sku_values(prime_value_map, elems, sfi) ==
    IF elems = <<>> THEN [ovf |-> FALSE, sfi |-> sfi]
    ELSE LET val == Head(elems) IN
         IF val.is_string /\ val.s \in DOMAIN prime_value_map
         THEN LET prime == prime_value_map[val.s] IN
              IF sku_overflow(prime, sfi)
              THEN [ovf |-> TRUE, sfi |-> max_val]
              ELSE IF prime > 1
                   THEN sku_values(prime_value_map, Tail(elems), umul(sfi, prime))
                   ELSE sku_values(prime_value_map, Tail(elems), sfi)
         ELSE sku_values(prime_value_map, Tail(elems), sfi)

\* A loader that excludes no attribute key.
excluded_key_none(attr_key) == FALSE

\* The attribute key left out of the SFI: if (attr_key == "brand") continue.
excluded_key(attr_key) == attr_key = "brand"

\* The loop over the attribute keys of one item, in sorted key order.
RECURSIVE sku_keys(_, _, _, _)
sku_keys(prime_map, attributes, keys, sfi) ==
    IF keys = <<>> THEN [ovf |-> FALSE, sfi |-> sfi]
    ELSE LET attr_key == Head(keys)
             rest == Tail(keys) IN
         IF attr_key \notin DOMAIN attributes
         THEN sku_keys(prime_map, attributes, rest, sfi)
         ELSE IF excluded_key(attr_key)
         THEN sku_keys(prime_map, attributes, rest, sfi)
         ELSE IF attr_key \notin DOMAIN prime_map
         THEN sku_keys(prime_map, attributes, rest, sfi)
         ELSE IF attributes[attr_key].is_array
         THEN LET r == sku_values(prime_map[attr_key],
                                  attributes[attr_key].elems, sfi) IN
              IF r.ovf THEN r
              ELSE sku_keys(prime_map, attributes, rest, r.sfi)
         ELSE sku_keys(prime_map, attributes, rest, sfi)

\* The SFI computed for one well-formed item: [ovf, sfi].  A non-object
\* attributes section leaves sku.sfi = 1.
sku_sfi(prime_map, item) ==
    IF item.attributes_is_object
    THEN sku_keys(prime_map, item.attributes, SortedKeys, 1)
    ELSE [ovf |-> FALSE, sfi |-> 1]

\* A loader that skips no item.
item_skipped_never(item) == FALSE

\* The item is skipped with a warning: not an object, no id, no attributes.
item_skipped(item) ==
    ~item.is_object \/ ~item.has_id \/ ~item.has_attributes

\* The loop over the inventory array.  The result is the store built so far
\* and whether an exception left the loop (item["id"].get<std::string>() on
\* a non-string id throws json::type_error).  An item whose product
\* overflows jumps to next_item, past the push_back.
RECURSIVE load_items(_, _, _)
load_items(prime_map, items, store) ==
    IF items = <<>> THEN [store |-> store, threw |-> FALSE]
    ELSE LET item == Head(items) IN
         IF item_skipped(item)
         THEN load_items(prime_map, Tail(items), store)
         ELSE IF ~item.id_is_string
         THEN [store |-> store, threw |-> TRUE]
         ELSE LET r == sku_sfi(prime_map, item) IN
              IF r.ovf
              THEN load_items(prime_map, Tail(items), store)
              ELSE load_items(prime_map, Tail(items),
                              Append(store, [id |-> item.id, sfi |-> r.sfi]))

\* A clear() that leaves the vector as it is.
sku_data_keep(store) == store

\* internal_sku_data_.clear() at the head of initializeFromJson.
sku_data_clear(store) == <<>>

\* initializeFromJson as a function of the dictionary and the document: the
\* records pushed onto the cleared store, item by item until the end or an
\* exception.
inventory_after(prime_map, doc) ==
    IF doc.form = "array"
    THEN load_items(prime_map, doc.items, <<>>)
    ELSE [store |-> <<>>, threw |-> TRUE]

\* --- filter ---------------------------------------------------------------
\* A scan that returns the matches last record first.
RECURSIVE filter_scan_reversed(_, _)
filter_scan_reversed(store, query_sfi) ==
    IF store = <<>> THEN <<>>
    ELSE LET item == Head(store) IN
         filter_scan_reversed(Tail(store), query_sfi)
         \o (IF item.sfi # 0 /\ item.sfi % query_sfi = 0
             THEN <<[id |-> item.id, sfi |-> item.sfi]>> ELSE <<>>)

\* The scan of perform_filter for a query other than 0 and 1.
RECURSIVE filter_scan(_, _)
filter_scan(store, query_sfi) ==
    IF store = <<>> THEN <<>>
    ELSE LET item == Head(store) IN
         (IF item.sfi # 0 /\ item.sfi % query_sfi = 0
          THEN <<[id |-> item.id, sfi |-> item.sfi]>> ELSE <<>>)
         \o filter_scan(Tail(store), query_sfi)

\* A scan that skips sentinel records (SFI 1) whatever the query is, and has
\* no wildcard branch.
perform_filter_skip_sentinel(store, query_sfi) ==
    IF query_sfi = 0 THEN <<>>
    ELSE SelectSeq(store, LAMBDA item : item.sfi # 1 /\ item.sfi % query_sfi = 0)

\* PrimeKit::perform_filter(query_sfi) of the JSON engine.
perform_filter(store, query_sfi) ==
    IF query_sfi = 0 THEN <<>>
    ELSE IF query_sfi = 1
    THEN [i \in 1..Len(store) |-> [id |-> store[i].id, sfi |-> store[i].sfi]]
    ELSE filter_scan(store, query_sfi)

\* The divisors a perform_filter without the zero check would use.
filter_divisors_unguarded(store, query_sfi) ==
    IF query_sfi = 1 THEN {}
    ELSE {query_sfi : j \in {j \in 1..Len(store) : store[j].sfi # 0}}

\* The divisors of the modulo operations perform_filter(query_sfi)
\* evaluates: none for the queries 0 and 1 (early returns), else query_sfi
\* for every record whose SFI is not 0 (item.sfi != 0 && ...).
filter_divisors(store, query_sfi) ==
    IF query_sfi = 0 THEN {}
    ELSE IF query_sfi = 1 THEN {}
    ELSE {query_sfi : j \in {j \in 1..Len(store) : store[j].sfi # 0}}

\* =========================================================================
\* Part 3.  The two-tier engine (src/src/cpp/primekit.cpp).
\* =========================================================================
\* SkuData of the two-tier engine.
SkuData(id, master, local) ==
    [sku_id |-> id, master_sfi |-> master, local_sfi |-> local]

\* Query value 0 is invalid, treat as 1 (wildcard).
normalize_query(q) == IF q = 0 THEN 1 ELSE q

\* A record passes when either tier matches (instead of both).
sku_matches_any(sku, master_query, local_query) ==
    \/ master_query = 1 \/ sku.master_sfi % master_query = 0
    \/ local_query = 1 \/ sku.local_sfi % local_query = 0

\* The body of the scan loop for one record, with normalized queries: the
\* two sentinel skips, then the two-tier divisibility check.
sku_matches(sku, master_query, local_query) ==
    IF sku.master_sfi = 1 /\ master_query # 1 THEN FALSE
    ELSE IF sku.local_sfi = 1 /\ local_query # 1 THEN FALSE
    ELSE LET master_match == master_query = 1 \/ sku.master_sfi % master_query = 0
             local_match  == local_query = 1 \/ sku.local_sfi % local_query = 0
         IN master_match /\ local_match

RECURSIVE tier_scan(_, _, _)
tier_scan(store, master_query, local_query) ==
    IF store = <<>> THEN <<>>
    ELSE (IF sku_matches(Head(store), master_query, local_query)
          THEN <<Head(store).sku_id>> ELSE <<>>)
         \o tier_scan(Tail(store), master_query, local_query)

\* PrimeKit::perform_filter(master_query, local_query).
perform_filter_tiers(store, master_query, local_query) ==
    tier_scan(store, normalize_query(master_query), normalize_query(local_query))

\* The divisors of the modulo operations the two-tier perform_filter
\* evaluates: for every record that passes the two sentinel skips, the
\* normalized query of each tier whose wildcard test (query == 1 ||) fails.
tier_divisors(store, master_query, local_query) ==
    LET mq == normalize_query(master_query)
        lq == normalize_query(local_query)
        scanned == {j \in 1..Len(store) :
                       /\ ~(store[j].master_sfi = 1 /\ mq # 1)
                       /\ ~(store[j].local_sfi = 1 /\ lq # 1)}
    IN {mq : j \in {j \in scanned : mq # 1}}
       \cup {lq : j \in {j \in scanned : lq # 1}}

\* ------------------------------------------------------------------ state
VARIABLES
    enc_args,             \* SpecEnc: the arguments handed to encode_sfi
    enc_ret,              \* SpecEnc: which encoder ran and what it returned
    attribute_prime_map,  \* PrimeKit::attribute_prime_map (JSON engine)
    internal_sku_data_,   \* PrimeKit::internal_sku_data_ (JSON engine)
    matching_results,     \* the vector returned by the last perform_filter
    call,                 \* the most recent call on the instance and its outcome
    dataset,              \* the inventory document and dictionary of the last rebuild
    tier_sku_data,        \* PrimeKit::internal_sku_data_ (two-tier engine)
    matching_sku_ids,     \* ids returned by the last two-tier perform_filter
    tier_call,            \* the most recent call on the two-tier instance
    js,                   \* the global state of the page (main.js)
    loads,                \* the loadSegment calls made so far, suspended or settled
    filtered              \* the most recent handleFilter call and what it scanned

encVars  == <<enc_args, enc_ret>>
jsonVars == <<attribute_prime_map, internal_sku_data_, matching_results, call, dataset>>
tierVars == <<tier_sku_data, matching_sku_ids, tier_call>>
pageVars == <<js, loads, filtered>>
vars     == <<enc_args, enc_ret, attribute_prime_map, internal_sku_data_,
              matching_results, call, dataset, tier_sku_data, matching_sku_ids,
              tier_call, js, loads, filtered>>

\* =========================================================================
\* SpecEnc: encode_sfi applied to every input of a bounded family.
\* =========================================================================
EncKeys == {"color", "size"}
EncValuesOf(key) == IF key = "color" THEN {"red", "blue"} ELSE {"S"}
\* Numbers a caller-supplied PrimeDictionary may hold (1 is not a prime: the
\* dictionary type does not exclude it, get_prime does).
EncNums == {1, 2, 13}

EncDicts ==
    UNION {
        {[k \in K |-> IF k = "color" THEN c ELSE s] :
            c \in PartialFns(EncValuesOf("color"), EncNums),
            s \in PartialFns(EncValuesOf("size"), EncNums)}
        : K \in SUBSET EncKeys}

EncAttributes ==
    UNION {
        {[k \in K |-> IF k = "color" THEN c ELSE s] :
            c \in SeqsUpTo(EncValuesOf("color"), MaxVals),
            s \in SeqsUpTo(EncValuesOf("size"), MaxVals)}
        : K \in SUBSET EncKeys}

EncKeyLists == SeqsUpTo(EncKeys, MaxKeys)

NoEncRet == [by |-> "none", sfi |-> 0]

\* The state of a freshly constructed instance, and of an idle encoder.
NoCall == [op |-> "PrimeKit", threw |-> FALSE, query |-> 1, primes |-> NoPrimesDoc,
           reload |-> FALSE]
NoDataset == [loaded |-> FALSE, doc |-> MalformedInventory("none"),
              dict_unchanged |-> TRUE]
JsonIdle ==
    /\ attribute_prime_map = <<>>
    /\ internal_sku_data_ = <<>>
    /\ matching_results = <<>>
    /\ call = NoCall
    /\ dataset = NoDataset
NoTierCall == [op |-> "PrimeKit", master_query |-> 1, local_query |-> 1]
TierIdle ==
    /\ tier_sku_data = <<>>
    /\ matching_sku_ids = <<>>
    /\ tier_call = NoTierCall
EncIdle ==
    /\ enc_args = [attributes |-> <<>>, relevant_keys |-> <<>>, prime_dict |-> <<>>]
    /\ enc_ret = NoEncRet

\* The page before main() has run: no module, no instance, no segment.
NoInstance == [segment |-> "", phase |-> "null"]
NoGlobals ==
    [primeKitModule |-> "loading", primeKitInstance |-> NoInstance,
     currentSegmentId |-> "", currentInventoryData |-> "null",
     currentPrimesData |-> "null", segmentCache |-> {}]
NoFilter == [by |-> "none", scanned |-> FALSE, instance |-> NoInstance,
             currentSegmentId |-> ""]
PageIdle ==
    /\ js = NoGlobals
    /\ loads = <<>>
    /\ filtered = NoFilter

InitEnc ==
    /\ enc_args \in [attributes : EncAttributes, relevant_keys : EncKeyLists,
                     prime_dict : EncDicts]
    /\ enc_ret = NoEncRet
    /\ JsonIdle
    /\ TierIdle
    /\ PageIdle

\* A call of the multi-valued encode_sfi on the chosen arguments.
EncodeSfi ==
    /\ enc_ret.by = "none"
    /\ enc_ret' = [by |-> "encode_sfi",
                   sfi |-> encode_sfi(enc_args.attributes, enc_args.relevant_keys,
                                      enc_args.prime_dict)]
    /\ UNCHANGED <<enc_args, jsonVars, tierVars, pageVars>>

\* ItemData of the two-tier engine maps each key to exactly one string.
IsItemData(attributes) == \A k \in DOMAIN attributes : Len(attributes[k]) = 1
AsItemData(attributes) == [k \in DOMAIN attributes |-> attributes[k][1]]

\* A call of the single-valued encode_sfi on the chosen arguments.
EncodeSfiItemData ==
    /\ enc_ret.by = "none"
    /\ IsItemData(enc_args.attributes)
    /\ enc_ret' = [by |-> "encode_sfi_ItemData",
                   sfi |-> encode_sfi_ItemData(AsItemData(enc_args.attributes),
                                               enc_args.relevant_keys,
                                               enc_args.prime_dict)]
    /\ UNCHANGED <<enc_args, jsonVars, tierVars, pageVars>>

NextEnc == EncodeSfi \/ EncodeSfiItemData

SpecEnc == InitEnc /\ [][NextEnc]_vars

\* The numbers (> 1) the dictionary holds for the values of one key, in order.
RECURSIVE FactorsOfValues(_, _, _)
FactorsOfValues(dict, key, values) ==
    IF values = <<>> THEN <<>>
    ELSE (IF /\ key \in DOMAIN dict
             /\ Head(values) \in DOMAIN dict[key]
             /\ dict[key][Head(values)] > 1
          THEN <<dict[key][Head(values)]>> ELSE <<>>)
         \o FactorsOfValues(dict, key, Tail(values))

\* The factors of a record in processing order: key by key, value by value.
RECURSIVE FactorsInOrder(_, _, _)
FactorsInOrder(attributes, keys, dict) ==
    IF keys = <<>> THEN <<>>
    ELSE (IF Head(keys) \in DOMAIN attributes
          THEN FactorsOfValues(dict, Head(keys), attributes[Head(keys)])
          ELSE <<>>)
         \o FactorsInOrder(attributes, Tail(keys), dict)

EncFactors == FactorsInOrder(enc_args.attributes, enc_args.relevant_keys,
                             enc_args.prime_dict)
PrefixProduct(L, i) == Product(SubSeq(L, 1, i))

\* C1: encode_sfi never returns a wrapped value.  With L the looked-up numbers
\* greater than 1 in processing order: if every prefix product of L is at most
\* 2^w - 1 the result is the exact integer product of L; if some prefix product
\* exceeds 2^w - 1 the result is the sentinel 1; and at every step the encoder
\* takes, the guard sfi > MAX / prime is true exactly when sfi * prime > MAX.
C1_EncodeNeverWraps ==
    enc_ret.by # "none" =>
        LET L == EncFactors IN
        /\ (\A i \in 0..Len(L) : PrefixProduct(L, i) <= max_val)
               => enc_ret.sfi = Product(L)
        /\ (\E i \in 0..Len(L) : PrefixProduct(L, i) > max_val)
               => enc_ret.sfi = 1
        /\ \A i \in 0..(Len(L) - 1) :
               PrefixProduct(L, i) <= max_val =>
                   (would_overflow(PrefixProduct(L, i), L[i + 1])
                        <=> PrefixProduct(L, i) * L[i + 1] > max_val)

\* C1 witness: the multi-valued encoder ran on a record whose exact product
\* exceeds the word after at least two factors, and returned the sentinel.
C1_Witness ==
    /\ enc_ret.by = "encode_sfi"
    /\ Len(EncFactors) >= 2
    /\ Product(EncFactors) > max_val
    /\ enc_ret.sfi = 1


\* =========================================================================
\* The JSON engine: one PrimeKit instance, its three bound methods.
\* =========================================================================
InitJson ==
    /\ attribute_prime_map = [k \in {} |-> <<>>]
    /\ internal_sku_data_ = <<>>
    /\ matching_results = <<>>
    /\ call = NoCall
    /\ dataset = NoDataset
    /\ EncIdle
    /\ TierIdle
    /\ PageIdle

\* initializePrimesFromJson(json_string): the map is cleared, then filled
\* from the document.  The record store is not touched.
initializePrimesFromJson(doc) ==
    /\ attribute_prime_map' = primes_after(doc)
    /\ call' = [op |-> "initializePrimesFromJson", threw |-> primes_throw(doc),
                query |-> 1, primes |-> doc, reload |-> FALSE]
    /\ dataset' = [dataset EXCEPT !.dict_unchanged =
                       ~dataset.loaded \/ (@ /\ primes_after(doc) = attribute_prime_map)]
    /\ matching_results' = <<>>
    /\ UNCHANGED <<internal_sku_data_, encVars, tierVars, pageVars>>

\* initializeFromJson(json_string): the store is cleared, then rebuilt from
\* the document under the dictionary loaded at that moment.  call.reload
\* tells that the rebuild before it was from the same document under the
\* same dictionary.
initializeFromJson(doc) ==
    LET r == inventory_after(attribute_prime_map, doc) IN
    /\ internal_sku_data_' = sku_data_clear(internal_sku_data_) \o r.store
    /\ call' = [op |-> "initializeFromJson", threw |-> r.threw,
                query |-> 1, primes |-> NoPrimesDoc,
                reload |-> /\ dataset.loaded
                           /\ dataset.dict_unchanged
                           /\ dataset.doc = doc]
    /\ dataset' = [loaded |-> TRUE, doc |-> doc, dict_unchanged |-> TRUE]
    /\ matching_results' = <<>>
    /\ UNCHANGED <<attribute_prime_map, encVars, tierVars, pageVars>>

\* perform_filter(query_sfi): a read-only scan; its return value is kept in
\* matching_results.
performFilter(query_sfi) ==
    /\ matching_results' = perform_filter(internal_sku_data_, query_sfi)
    /\ call' = [op |-> "perform_filter", threw |-> FALSE,
                query |-> query_sfi, primes |-> NoPrimesDoc, reload |-> FALSE]
    /\ UNCHANGED <<attribute_prime_map, internal_sku_data_, dataset,
                   encVars, tierVars, pageVars>>

\* --- Spec: inventories of several records --------------------------------
\* Dictionary documents: the three failure shapes, and color dictionaries in
\* which red is 13 and blue is 2 or invalid.
StorePrimesDocs ==
    {MalformedPrimes(f) : f \in {"parse_error", "no_section", "section_not_object"}}
    \cup {PrimesObject([k \in {"color"} |->
                           ValueMap([v \in {"red", "blue"} |->
                               IF v = "red" THEN Unsigned(13) ELSE b])])
          : b \in {Unsigned(1), Unsigned(2)}}

\* Record ids by position in the inventory array.
Ids == <<"A", "B", "C", "D">>

NotAnItem(id)    == [Item(id, <<>>) EXCEPT !.is_object = FALSE]
NoId(id)         == [Item(id, <<>>) EXCEPT !.has_id = FALSE]
NoAttributes(id) == [Item(id, <<>>) EXCEPT !.has_attributes = FALSE]
IdNotString(id)  == [Item(id, <<>>) EXCEPT !.id_is_string = FALSE]
AttributesNotObject(id) == [Item(id, <<>>) EXCEPT !.attributes_is_object = FALSE]
ColorItem(id, names) ==
    Item(id, [k \in {"color"} |-> Array([i \in 1..Len(names) |-> Str(names[i])])])

\* The malformed item of a position: each of the three shapes the loader
\* skips stands at one position of the array.
Malformed(id) ==
    IF id = Ids[1] THEN NoId(id)
    ELSE IF id = Ids[2] THEN NotAnItem(id)
    ELSE NoAttributes(id)

\* The items that may stand at one position: a malformed item, an item
\* whose id is not a string, a record with one color, a record listing red
\* twice (169 with red = 13), a record with the other color.
StoreItems(id) ==
    {Malformed(id), IdNotString(id),
     ColorItem(id, <<"red">>), ColorItem(id, <<"red", "red">>),
     ColorItem(id, <<"blue">>)}

\* The item arrays of length n, the item at position i carrying Ids[i].
RECURSIVE ItemArrays(_)
ItemArrays(n) ==
    IF n = 0 THEN {<<>>}
    ELSE {Append(items, item) : items \in ItemArrays(n - 1),
                                item \in StoreItems(Ids[n])}

StoreInventories ==
    {MalformedInventory(f) : f \in {"parse_error", "not_array"}}
    \cup {InventoryArray(items) : items \in UNION {ItemArrays(n) : n \in 0..MaxItems}}

StoreQueries == {0, 1, 2, 13}

Next ==
    \/ \E doc \in StorePrimesDocs : initializePrimesFromJson(doc)
    \/ \E doc \in StoreInventories : initializeFromJson(doc)
    \/ \E q \in StoreQueries : performFilter(q)

Spec == InitJson /\ [][Next]_vars

\* --- SpecRec: inventories of one record, every attribute shape ------------
\* Dictionary documents: red is 13; blue is not unsigned, 1, 2 or 13 (13 is
\* red's number again); the size map is an object {S: 5} or not an object;
\* the brand key is absent or {acme: 7}.
RecPrimesDocs ==
    {MalformedPrimes(f) : f \in {"parse_error", "no_section", "section_not_object"}}
    \cup {PrimesObject([k \in {"color", "size"} \cup bk |->
              IF k = "color"
              THEN ValueMap([v \in {"red", "blue"} |->
                                IF v = "red" THEN Unsigned(13) ELSE b])
              ELSE IF k = "size" THEN sz
              ELSE ValueMap([v \in {"acme"} |-> Unsigned(7)])])
          : b \in {NotUnsigned, Unsigned(1), Unsigned(2), Unsigned(13)},
            sz \in {NotAnObject, ValueMap([v \in {"S"} |-> Unsigned(5)])},
            bk \in {{}, {"brand"}}}

\* The shapes of one attribute's value: a bare string, or an array.
ColorShapes ==
    {Bare("red"), Array(<<NonStr>>)}
    \cup {Array(s) : s \in SeqsUpTo({Str("red"), Str("blue")}, MaxVals)}
SizeShapes  == {Array(<<Str("S")>>)}
BrandShapes == {Array(<<Str("acme")>>)}
ShapesOf(k) == IF k = "color" THEN ColorShapes
               ELSE IF k = "size" THEN SizeShapes ELSE BrandShapes

RecAttributes ==
    UNION {
        {[k \in K |-> IF k = "color" THEN c ELSE IF k = "size" THEN s ELSE b] :
            c \in ColorShapes, s \in SizeShapes, b \in BrandShapes}
        : K \in SUBSET {"brand", "color", "size"}}

RecInventories ==
    {MalformedInventory(f) : f \in {"parse_error", "not_array"}}
    \cup {InventoryArray(<<item>>) :
              item \in {NotAnItem(Ids[1]), NoId(Ids[1]), NoAttributes(Ids[1]),
                        IdNotString(Ids[1]), AttributesNotObject(Ids[1])}}
    \cup {InventoryArray(<<Item(Ids[1], a)>>) : a \in RecAttributes}

RecQueries == {0, 1, 2, 5, 7, 13, 26}

NextRec ==
    \/ \E doc \in RecPrimesDocs : initializePrimesFromJson(doc)
    \/ \E doc \in RecInventories : initializeFromJson(doc)
    \/ \E q \in RecQueries : performFilter(q)

SpecRec == InitJson /\ [][NextRec]_vars

\* =========================================================================
\* SpecTier: the two-tier engine; JavaScript hands it ready-made SkuData.
\* =========================================================================
InitTier ==
    /\ tier_sku_data = <<>>
    /\ matching_sku_ids = <<>>
    /\ tier_call = NoTierCall
    /\ EncIdle
    /\ JsonIdle
    /\ PageIdle

\* initialize_data(inventory_data): clear, reserve, assign the vector.
initialize_data(inventory_data) ==
    /\ tier_sku_data' = inventory_data
    /\ matching_sku_ids' = <<>>
    /\ tier_call' = [op |-> "initialize_data", master_query |-> 1, local_query |-> 1]
    /\ UNCHANGED <<encVars, jsonVars, pageVars>>

\* perform_filter(master_query, local_query): a read-only scan.
performFilterTiers(master_query, local_query) ==
    /\ matching_sku_ids' = perform_filter_tiers(tier_sku_data, master_query, local_query)
    /\ tier_call' = [op |-> "perform_filter", master_query |-> master_query,
                     local_query |-> local_query]
    /\ UNCHANGED <<tier_sku_data, encVars, jsonVars, pageVars>>

\* SFIs the caller may hand over: uint64 fields, so 0 and 1 included.
TierMasterSfis == {1, 2, 6}
TierLocalSfis  == {0, 1, 7}
TierInventories ==
    UNION {
        {[i \in 1..n |-> SkuData(Ids[i], m[i], l[i])] :
            m \in [1..n -> TierMasterSfis], l \in [1..n -> TierLocalSfis]}
        : n \in 0..MaxItems}
TierMasterQueries == {0, 1, 2, 3}
TierLocalQueries  == {0, 1, 7}

NextTier ==
    \/ \E d \in TierInventories : initialize_data(d)
    \/ \E mq \in TierMasterQueries, lq \in TierLocalQueries :
           performFilterTiers(mq, lq)

SpecTier == InitTier /\ [][NextTier]_vars

\* =========================================================================
\* Part 4.  The page (src/src/js/main.js): loadSegment and handleFilter.
\* =========================================================================
\* JavaScript runs one handler at a time to its end or to its next await, so
\* an action is the code a handler runs between two awaits.  The PrimeKit
\* instance the page holds is followed by its position in the load sequence:
\*   "null"           no instance
\*   "constructed"    new PrimeKit()
\*   "primes_failed"  initializePrimesFromJson threw
\*   "rebuild_failed" initializeFromJson threw
\*   "built"          initializeFromJson returned
\* currentInventoryData / currentPrimesData hold the id of the segment whose
\* parsed files they are, or "null".

\* Most loadSegment calls of one run.
MaxLoads == 3

\* The segments of the selector; "" is the empty selection.
SegmentIds == {"BrandA", "BrandB", "BrandC"}

GoodPrimes ==
    PrimesObject([k \in {"color"} |->
        ValueMap([v \in {"red", "blue"} |->
            IF v = "red" THEN Unsigned(13) ELSE Unsigned(2)])])

\* The files served for a segment: BrandA loads; the inventory of BrandB
\* has an id that is not a string after its first record; the primes file
\* of BrandC has no attribute_to_prime section.
SegmentFiles(segmentId) ==
    IF segmentId = "BrandA"
    THEN [primes |-> GoodPrimes,
          inventory |-> InventoryArray(<<ColorItem("A", <<"red">>),
                                         ColorItem("B", <<"blue">>)>>)]
    ELSE IF segmentId = "BrandB"
    THEN [primes |-> GoodPrimes,
          inventory |-> InventoryArray(<<ColorItem("A", <<"red">>),
                                         IdNotString("B")>>)]
    ELSE [primes |-> MalformedPrimes("no_section"),
          inventory |-> InventoryArray(<<ColorItem("A", <<"red">>)>>)]

\* new PrimeKit(), initializePrimesFromJson(primesString),
\* initializeFromJson(inventoryString): the instance reached and whether an
\* exception left the sequence.
initialize_instance(files, segmentId) ==
    IF primes_throw(files.primes)
    THEN [instance |-> [segment |-> segmentId, phase |-> "primes_failed"],
          threw |-> TRUE]
    ELSE LET r == inventory_after(primes_after(files.primes), files.inventory) IN
         IF r.threw
         THEN [instance |-> [segment |-> segmentId, phase |-> "rebuild_failed"],
               threw |-> TRUE]
         ELSE [instance |-> [segment |-> segmentId, phase |-> "built"],
               threw |-> FALSE]

\* A catch block that leaves the globals as the exception found them.
load_failed_keeps(g) == g

\* The catch block of loadSegment: the instance is deleted, the data dropped.
load_failed(g) ==
    [g EXCEPT !.primeKitInstance = NoInstance,
              !.currentInventoryData = "null",
              !.currentPrimesData = "null"]

\* The empty selection: the instance is deleted, the data dropped.
reset_selection(g) ==
    [g EXCEPT !.primeKitInstance = NoInstance,
              !.currentInventoryData = "null",
              !.currentPrimesData = "null"]

\* loadSegment from the assignment of the globals to the two initialize
\* calls: the globals reached and whether an exception left the block.
load_data(g, segmentId) ==
    LET g1 == [g EXCEPT !.currentInventoryData = segmentId,
                        !.currentPrimesData = segmentId] IN
    IF g.primeKitModule # "loaded"
    THEN [g |-> g1, threw |-> TRUE]
    ELSE LET r == initialize_instance(SegmentFiles(segmentId), segmentId) IN
         [g |-> [g1 EXCEPT !.primeKitInstance = r.instance], threw |-> r.threw]

\* The rest of loadSegment once the files are at hand: the globals it
\* leaves and whether it went on to its own handleFilter() call.
finish_load(g, segmentId) ==
    LET r == load_data(g, segmentId) IN
    IF r.threw THEN [g |-> load_failed(r.g), filter |-> FALSE]
    ELSE [g |-> r.g, filter |-> TRUE]

\* The guard of handleFilter.
ready_to_filter(g) ==
    /\ g.primeKitInstance.phase # "null"
    /\ g.currentInventoryData # "null"
    /\ g.currentPrimesData # "null"

\* handleFilter(): whether it called perform_filter, and on which instance.
handle_filter(g, by) ==
    [by |-> by, scanned |-> ready_to_filter(g),
     instance |-> IF ready_to_filter(g) THEN g.primeKitInstance ELSE NoInstance,
     currentSegmentId |-> g.currentSegmentId]

InitPage ==
    /\ PageIdle
    /\ EncIdle
    /\ JsonIdle
    /\ TierIdle

\* main(): the module factory settles; on failure the selector is disabled.
moduleSettled(ok) ==
    /\ js.primeKitModule = "loading"
    /\ js' = [js EXCEPT !.primeKitModule = IF ok THEN "loaded" ELSE "failed"]
    /\ UNCHANGED <<loads, filtered, encVars, jsonVars, tierVars>>

\* loadSegment(segmentId) from its start to its first await or, when there
\* is none (empty selection, cache hit), to its end.  fresh tells whether a
\* cached entry is younger than CACHE_EXPIRY_MS.  A call is kept in loads
\* with its segment, whether it has settled, and whether it ended in the
\* catch block.
loadSegment(segmentId, fresh) ==
    /\ Len(loads) < MaxLoads
    /\ js.primeKitModule # "failed"
    /\ LET g0 == [js EXCEPT !.currentSegmentId = segmentId] IN
       IF segmentId = ""
       THEN /\ js' = reset_selection(g0)
            /\ loads' = Append(loads, [segmentId |-> segmentId, settled |-> TRUE,
                                       failed |-> FALSE])
            /\ UNCHANGED filtered
       ELSE IF segmentId \in js.segmentCache /\ fresh
       THEN LET f == finish_load(g0, segmentId) IN
            /\ js' = f.g
            /\ loads' = Append(loads, [segmentId |-> segmentId, settled |-> TRUE,
                                       failed |-> ~f.filter])
            /\ filtered' = IF f.filter THEN handle_filter(f.g, "loadSegment")
                           ELSE filtered
       ELSE /\ js' = g0
            /\ loads' = Append(loads, [segmentId |-> segmentId, settled |-> FALSE,
                                       failed |-> FALSE])
            /\ UNCHANGED filtered
    /\ UNCHANGED <<encVars, jsonVars, tierVars>>

\* The two fetches of the i-th loadSegment call settle and the call runs to
\* its end: ok is FALSE when a fetch or a JSON.parse throws.
fetchSettled(i, ok) ==
    /\ i \in 1..Len(loads)
    /\ ~loads[i].settled
    /\ LET segmentId == loads[i].segmentId IN
       IF ~ok
       THEN /\ js' = load_failed(js)
            /\ loads' = [loads EXCEPT ![i].settled = TRUE, ![i].failed = TRUE]
            /\ UNCHANGED filtered
       ELSE LET g0 == [js EXCEPT !.segmentCache = @ \cup {segmentId}]
                f  == finish_load(g0, segmentId) IN
            /\ js' = f.g
            /\ loads' = [loads EXCEPT ![i].settled = TRUE, ![i].failed = ~f.filter]
            /\ filtered' = IF f.filter THEN handle_filter(f.g, "loadSegment")
                           ELSE filtered
    /\ UNCHANGED <<encVars, jsonVars, tierVars>>

\* A click on the Apply Filter button: handleFilter().
handleFilter ==
    /\ js.primeKitModule = "loaded"
    /\ filtered' = handle_filter(js, "click")
    /\ UNCHANGED <<js, loads, encVars, jsonVars, tierVars>>

NextPage ==
    \/ \E ok \in BOOLEAN : moduleSettled(ok)
    \/ \E segmentId \in SegmentIds \cup {""}, fresh \in BOOLEAN :
           loadSegment(segmentId, fresh)
    \/ \E i \in 1..MaxLoads, ok \in BOOLEAN : fetchSettled(i, ok)
    \/ handleFilter

SpecPage == InitPage /\ [][NextPage]_vars

\* =========================================================================
\* Properties.  The notions below restate the data model of the design
\* (a record, its attribute values, the dictionary number of a value); they
\* do not use the operators that model the code.
\* =========================================================================
\* The item is a record of the dataset: an object with a string id and an
\* attributes section.
IsRecord(item) ==
    item.is_object /\ item.has_id /\ item.id_is_string /\ item.has_attributes

\* The strings a sequence of JSON elements holds, in order.
RECURSIVE StringsOf(_)
StringsOf(elems) ==
    IF elems = <<>> THEN <<>>
    ELSE (IF Head(elems).is_string THEN <<Head(elems).s>> ELSE <<>>)
         \o StringsOf(Tail(elems))

\* The values a record has for a key: the strings of its sequence, a single
\* string being a one-element sequence.
ValuesOf(item, k) ==
    IF item.attributes_is_object /\ k \in DOMAIN item.attributes
    THEN StringsOf(item.attributes[k].elems)
    ELSE <<>>

\* The values a record lists for a key in a sequence (an array) only.
ListedValuesOf(item, k) ==
    IF /\ item.attributes_is_object
       /\ k \in DOMAIN item.attributes
       /\ item.attributes[k].is_array
    THEN StringsOf(item.attributes[k].elems)
    ELSE <<>>

\* The dictionary number of (key, value); 1 when the dictionary has none.
DictNumber(dict, k, v) ==
    IF k \in DOMAIN dict /\ v \in DOMAIN dict[k] THEN dict[k][v] ELSE 1

\* The attribute keys that take part in the SFI: every key but "brand".
FilterKeys == <<"color", "size">>

NumbersOf(dict, k, values) ==
    [i \in 1..Len(values) |-> DictNumber(dict, k, values[i])]

\* The dictionary numbers of all values of a record, key by key.
RecordNumbers(dict, item) ==
    Flatten([i \in 1..Len(FilterKeys) |->
                NumbersOf(dict, FilterKeys[i], ValuesOf(item, FilterKeys[i]))])

\* The same over the values listed in sequences only.
ListedNumbers(dict, item) ==
    Flatten([i \in 1..Len(FilterKeys) |->
                NumbersOf(dict, FilterKeys[i], ListedValuesOf(item, FilterKeys[i]))])

\* The products of the sub-collections of a sequence of numbers.
SubProducts(L) ==
    {Product(SelectSeqIdx(L, K, 1)) : K \in SUBSET (1..Len(L))}

\* The records of the dataset the store was last rebuilt from.
DatasetRecords ==
    IF dataset.loaded /\ dataset.doc.form = "array"
    THEN {dataset.doc.items[i] : i \in 1..Len(dataset.doc.items)}
    ELSE {}
DatasetRecordsIn == {item \in DatasetRecords : IsRecord(item)}

\* The store was rebuilt from the dataset under the dictionary now loaded.
StoreBuilt == dataset.loaded /\ dataset.dict_unchanged

StoreIds   == {internal_sku_data_[j].id : j \in 1..Len(internal_sku_data_)}
ResultIds  == {matching_results[j].id : j \in 1..Len(matching_results)}
StoredSfis(id) ==
    {internal_sku_data_[j].sfi :
        j \in {j \in 1..Len(internal_sku_data_) : internal_sku_data_[j].id = id}}
Filtered == call.op = "perform_filter"

\* C2: overflow containment.  A record whose product of dictionary numbers
\* exceeds the word is in the store with SFI = 1 after the rebuild, and no
\* perform_filter with a query other than 1 returns it.
C2_OverflowContained ==
    StoreBuilt =>
        \A item \in DatasetRecordsIn :
            Product(ListedNumbers(attribute_prime_map, item)) > max_val =>
                /\ StoredSfis(item.id) = {1}
                /\ ((Filtered /\ call.query # 1) => item.id \notin ResultIds)

\* The part of C2 the JSON engine keeps: an overflowed record is never
\* returned for a query other than 1.
C2_NeverMatchesSpecific ==
    StoreBuilt =>
        \A item \in DatasetRecordsIn :
            (/\ Product(ListedNumbers(attribute_prime_map, item)) > max_val
             /\ Filtered
             /\ call.query # 1) => item.id \notin ResultIds

\* C3: divisibility correctness.  For every record R in the store and every
\* query Q that is the product of the dictionary numbers of a sub-collection
\* of R's attribute values, perform_filter(Q) returns R.
C3_SubsetQueryMatches ==
    (StoreBuilt /\ Filtered) =>
        \A item \in DatasetRecordsIn :
            (/\ item.id \in StoreIds
             /\ call.query \in SubProducts(RecordNumbers(attribute_prime_map, item)))
                => item.id \in ResultIds

\* C3 over the values listed in sequences only (no single-string values).
C3_ListedSubsetQueryMatches ==
    (StoreBuilt /\ Filtered) =>
        \A item \in DatasetRecordsIn :
            (/\ item.id \in StoreIds
             /\ call.query \in SubProducts(ListedNumbers(attribute_prime_map, item)))
                => item.id \in ResultIds

\* The (key, value) pairs of a dictionary.
PairsOf(dict) == UNION {{<<k, v>> : v \in DOMAIN dict[k]} : k \in DOMAIN dict}

\* The record has value v for key k.
HasValue(item, k, v) ==
    \E i \in 1..Len(ValuesOf(item, k)) : ValuesOf(item, k)[i] = v

\* C4: negative correctness.  For every record R in the store and every
\* query Q that contains (is a multiple of) the dictionary number of a value
\* R does not have, perform_filter(Q) does not return R, whatever dictionary
\* the loader accepted.
C4_ForeignNumberExcludes ==
    (StoreBuilt /\ Filtered /\ call.query > 0) =>
        \A item \in DatasetRecordsIn :
            (\E p \in PairsOf(attribute_prime_map) :
                /\ ~HasValue(item, p[1], p[2])
                /\ call.query % attribute_prime_map[p[1]][p[2]] = 0)
                => item.id \notin ResultIds

\* The numbers of the dictionary are pairwise distinct primes.
IsPrime(n) == n > 1 /\ \A d \in 2..(n - 1) : n % d # 0
DistinctPrimes(dict) ==
    \A p \in PairsOf(dict) :
        /\ IsPrime(dict[p[1]][p[2]])
        /\ \A q \in PairsOf(dict) : dict[p[1]][p[2]] = dict[q[1]][q[2]] => p = q

\* C4 under a dictionary of pairwise distinct primes.
C4_DistinctPrimesExclude ==
    (StoreBuilt /\ Filtered /\ call.query > 0
        /\ DistinctPrimes(attribute_prime_map)) =>
        \A item \in DatasetRecordsIn :
            (\E p \in PairsOf(attribute_prime_map) :
                /\ ~HasValue(item, p[1], p[2])
                /\ call.query % attribute_prime_map[p[1]][p[2]] = 0)
                => item.id \notin ResultIds

\* C5: wildcard law.  perform_filter(1) returns every record of the store:
\* same count, same ids, same SFIs, whatever the SFIs are.
C5_WildcardReturnsAll ==
    (Filtered /\ call.query = 1) =>
        /\ Len(matching_results) = Len(internal_sku_data_)
        /\ \A i \in 1..Len(internal_sku_data_) :
               /\ matching_results[i].id = internal_sku_data_[i].id
               /\ matching_results[i].sfi = internal_sku_data_[i].sfi

\* C5 witness: a wildcard query over a store of two records, one holding the
\* sentinel 1 and one a real product.
C5_Witness ==
    /\ Filtered /\ call.query = 1
    /\ Len(internal_sku_data_) = 2
    /\ \E i, j \in 1..2 : internal_sku_data_[i].sfi = 1 /\ internal_sku_data_[j].sfi > 1
    /\ Len(matching_results) = 2

\* C6: zero-query normalization.  perform_filter(0) returns what
\* perform_filter(1) returns: every record of the store.
C6_ZeroQueryIsWildcard ==
    (Filtered /\ call.query = 0) =>
        /\ Len(matching_results) = Len(internal_sku_data_)
        /\ \A i \in 1..Len(internal_sku_data_) :
               matching_results[i].id = internal_sku_data_[i].id

\* C7: two-tier match rule.  perform_filter(master_query, local_query)
\* returns a record if and only if, in both tiers, the normalized query is 1,
\* or the record's SFI is not 1 and is a multiple of the query.
TierMatches(sfi, q) ==
    LET nq == IF q = 0 THEN 1 ELSE q IN
    nq = 1 \/ (sfi # 1 /\ sfi % nq = 0)
C7_TwoTierRule ==
    tier_call.op = "perform_filter" =>
        \A i \in 1..Len(tier_sku_data) :
            (\E j \in 1..Len(matching_sku_ids) :
                 matching_sku_ids[j] = tier_sku_data[i].sku_id)
            <=> (/\ TierMatches(tier_sku_data[i].master_sfi, tier_call.master_query)
                 /\ TierMatches(tier_sku_data[i].local_sfi, tier_call.local_query))

\* C7 witness: a two-tier filter with a specific master query over a store
\* where one record matches in both tiers and another matches in one only.
C7_Witness ==
    /\ tier_call.op = "perform_filter"
    /\ tier_call.master_query = 2 /\ tier_call.local_query = 7
    /\ Len(tier_sku_data) = 2
    /\ tier_sku_data[1].master_sfi = 6 /\ tier_sku_data[1].local_sfi = 7
    /\ tier_sku_data[2].master_sfi = 2 /\ tier_sku_data[2].local_sfi = 1
    /\ matching_sku_ids = <<tier_sku_data[1].sku_id>>

\* C8: without overflow the stored SFI of a record is the product of the
\* dictionary numbers of all its values under the non-excluded keys; absent
\* keys and values count as 1.
C8_StoredSfiIsProduct ==
    StoreBuilt =>
        \A item \in DatasetRecordsIn :
            LET n == Product(RecordNumbers(attribute_prime_map, item)) IN
            n <= max_val => StoredSfis(item.id) = {n}

\* C8 over the values listed in sequences only (no single-string values).
C8_StoredSfiIsListedProduct ==
    StoreBuilt =>
        \A item \in DatasetRecordsIn :
            LET n == Product(ListedNumbers(attribute_prime_map, item)) IN
            n <= max_val => StoredSfis(item.id) = {n}

\* The dataset with every single-string attribute value v rewritten as the
\* one-element sequence [v].
AsSequences(doc) ==
    [doc EXCEPT !.items =
        [i \in 1..Len(doc.items) |->
            [doc.items[i] EXCEPT !.attributes =
                [k \in DOMAIN doc.items[i].attributes |->
                    Array(doc.items[i].attributes[k].elems)]]]]

\* C9: a single value is a one-element sequence.  The store built from a
\* dataset equals the store built from the same dataset with each single
\* string v written as [v].
C9_SingleValueAsSequence ==
    (StoreBuilt /\ dataset.doc.form = "array") =>
        internal_sku_data_ =
            inventory_after(attribute_prime_map, AsSequences(dataset.doc)).store

\* C10: uniqueness.  After a successful initializePrimesFromJson no two
\* distinct (key, value) pairs of the dictionary have the same number.
C10_NumbersUnique ==
    (call.op = "initializePrimesFromJson" /\ ~call.threw) =>
        \A p, q \in PairsOf(attribute_prime_map) :
            attribute_prime_map[p[1]][p[2]] = attribute_prime_map[q[1]][q[2]]
                => p = q

\* The (key, value) pairs of a primes section whose number is an unsigned
\* integer greater than 1 (the value map of the key being an object).
ValidPairs(section) ==
    UNION {{<<k, v>> : v \in {v \in DOMAIN section[k].entries :
                                 /\ section[k].entries[v].is_unsigned
                                 /\ section[k].entries[v].n > 1}}
           : k \in {k \in DOMAIN section : section[k].is_object}}

\* The (key, value) pairs of a primes section, valid or not.
AllPairs(section) ==
    UNION {{<<k, v>> : v \in DOMAIN section[k].entries} : k \in DOMAIN section}

LoadedPrimes == call.op = "initializePrimesFromJson"

\* C11: entry-level validation is soft.  After a successful
\* initializePrimesFromJson the dictionary holds exactly the entries of the
\* document whose number is an unsigned integer greater than 1, each with
\* its number, and every stored number is greater than 1.
C11_SoftEntryValidation ==
    (LoadedPrimes /\ ~call.threw /\ call.primes.form = "object") =>
        /\ PairsOf(attribute_prime_map) = ValidPairs(call.primes.section)
        /\ \A p \in PairsOf(attribute_prime_map) :
               /\ attribute_prime_map[p[1]][p[2]]
                      = call.primes.section[p[1]].entries[p[2]].n
               /\ attribute_prime_map[p[1]][p[2]] > 1

\* C11 witness: a successful load of a document with an invalid entry and a
\* valid entry under the same key; the valid one is in the dictionary.
C11_Witness ==
    /\ LoadedPrimes /\ ~call.threw /\ call.primes.form = "object"
    /\ \E p \in AllPairs(call.primes.section) :
           /\ p \notin ValidPairs(call.primes.section)
           /\ \E q \in PairsOf(attribute_prime_map) : q[1] = p[1] /\ q[2] # p[2]

\* C12: dictionary load failure.  When the primes document cannot be parsed,
\* lacks the attribute_to_prime section, or has it as a non-object,
\* initializePrimesFromJson throws and the dictionary is empty afterwards.
C12_LoadFailureThrows ==
    (LoadedPrimes /\ call.primes.form
         \in {"parse_error", "no_section", "section_not_object"}) =>
        /\ call.threw
        /\ DOMAIN attribute_prime_map = {}

\* The part of C12 the code keeps: the dictionary is empty after every load
\* of such a document, and the two other shapes throw.
C12_FailureLeavesEmpty ==
    (LoadedPrimes /\ call.primes.form
         \in {"parse_error", "no_section", "section_not_object"}) =>
        /\ DOMAIN attribute_prime_map = {}
        /\ (call.primes.form # "section_not_object" => call.threw)

Rebuilt == call.op = "initializeFromJson"

\* C13: rebuild is atomic for the caller.  After an initializeFromJson call
\* that throws, the record store is either what it was before the call or
\* empty; it never holds only a prefix of the new dataset's records.
C13_RebuildAtomic ==
    [][(call'.op = "initializeFromJson" /\ call'.threw) =>
           \/ internal_sku_data_' = internal_sku_data_
           \/ internal_sku_data_' = <<>>]_vars

\* The item is malformed: not an object, without id, or without attributes.
IsMalformed(item) == ~item.is_object \/ ~item.has_id \/ ~item.has_attributes

\* The record at position i of the items is one the rebuild reaches and
\* stores: a record whose product fits the word, no item before it having an
\* id that is not a string.
Loadable(dict, items, i) ==
    /\ IsRecord(items[i])
    /\ Product(ListedNumbers(dict, items[i])) <= max_val
    /\ \A j \in 1..(i - 1) : IsMalformed(items[j]) \/ items[j].id_is_string

C15_IdempotentReload ==
    [][(call'.op = "initializeFromJson" /\ call'.reload) =>
           internal_sku_data_' = internal_sku_data_]_vars

\* C15 witness: the second of two rebuilds from the same inventory under the
\* same dictionary, with two records in the store.
C15_Witness ==
    /\ Rebuilt /\ call.reload
    /\ Len(internal_sku_data_) = 2

\* The records that differ from the item in their brand values only: no
\* brand, one brand value, the brand value listed twice.
BrandVariants(item) ==
    {[item EXCEPT !.attributes =
         [k \in DOMAIN item.attributes \ {"brand"} |-> item.attributes[k]]]}
    \cup {[item EXCEPT !.attributes =
              [k \in DOMAIN item.attributes \cup {"brand"} |->
                  IF k = "brand" THEN b ELSE item.attributes[k]]]
          : b \in {Array(<<Str("acme")>>), Array(<<Str("acme"), Str("acme")>>)}}

\* The SFIs the store holds for the item when rebuilt from the item alone.
StoredSfisOf(dict, item) ==
    LET store == inventory_after(dict, InventoryArray(<<item>>)).store
    IN {store[j].sfi : j \in 1..Len(store)}

\* C16: the partition key "brand" never contributes to the SFI.  The SFI the
\* store holds for a record is the SFI it holds for every record that
\* differs from it in the brand values only, also under a dictionary that
\* has numbers for brand values.
C16_BrandNeverContributes ==
    StoreBuilt =>
        \A item \in DatasetRecordsIn :
            item.attributes_is_object =>
                \A v \in BrandVariants(item) :
                    StoredSfis(item.id) = StoredSfisOf(attribute_prime_map, v)

\* C16 witness: the dictionary has a number for the brand value acme, the
\* record lists brand acme and color red, and its stored SFI is red's number.
C16_Witness ==
    /\ StoreBuilt
    /\ DictNumber(attribute_prime_map, "brand", "acme") > 1
    /\ \E item \in DatasetRecordsIn :
           /\ item.attributes_is_object
           /\ "brand" \in DOMAIN item.attributes
           /\ ListedValuesOf(item, "color") = <<"red">>
           /\ StoredSfis(item.id) = {DictNumber(attribute_prime_map, "color", "red")}

\* C17: for every query the result of perform_filter is a subsequence of the
\* record store: the matches in store order, each stored record at most
\* once, nothing reordered or sorted.
C17_ResultIsSubsequence ==
    Filtered =>
        \E K \in SUBSET (1..Len(internal_sku_data_)) :
            matching_results = SelectSeqIdx(internal_sku_data_, K, 1)

\* C17 witness: a specific query over a store of two records, both returned.
C17_Witness ==
    /\ Filtered /\ call.query > 1
    /\ Len(internal_sku_data_) = 2
    /\ Len(matching_results) = 2
    /\ matching_results[1].id # matching_results[2].id

\* C17 for the two-tier engine: the returned ids are a subsequence of the
\* ids of the store.
C17_TierResultIsSubsequence ==
    tier_call.op = "perform_filter" =>
        \E K \in SUBSET (1..Len(tier_sku_data)) :
            matching_sku_ids =
                SelectSeqIdx([i \in 1..Len(tier_sku_data) |-> tier_sku_data[i].sku_id],
                             K, 1)

\* C18: store invariant.  In every reachable state every SFI held in a record
\* store (each tier of each record) is an integer in [1, 2^w - 1]; no stored
\* SFI is 0.
C18_StoredSfiInRange ==
    /\ \A j \in 1..Len(internal_sku_data_) :
           internal_sku_data_[j].sfi \in 1..max_val
    /\ \A i \in 1..Len(tier_sku_data) :
           /\ tier_sku_data[i].master_sfi \in 1..max_val
           /\ tier_sku_data[i].local_sfi \in 1..max_val

\* C18 for the store of the JSON engine alone.
C18_JsonStoredSfiInRange ==
    \A j \in 1..Len(internal_sku_data_) :
        internal_sku_data_[j].sfi \in 1..max_val

\* C19: an invalid query never reaches the per-record test.  For every query
\* and every store, perform_filter evaluates no modulo with divisor 0.
C19_NoZeroDivisor ==
    Filtered => 0 \notin filter_divisors(internal_sku_data_, call.query)

\* C19 witness: perform_filter(0) over a store of two records returned
\* without a match.
C19_Witness ==
    /\ Filtered /\ call.query = 0
    /\ Len(internal_sku_data_) = 2
    /\ matching_results = <<>>

\* C19 for the two-tier engine, where the query 0 is normalized to 1.
C19_TierNoZeroDivisor ==
    tier_call.op = "perform_filter" =>
        0 \notin tier_divisors(tier_sku_data, tier_call.master_query,
                               tier_call.local_query)

\* C20: readers are excluded during rebuild.  Under every interleaving of
\* loadSegment calls and filter requests, every perform_filter scan runs on
\* an instance whose initializeFromJson has returned, and between handlers
\* the page holds no instance that is part-way through its load.
C20_ReadersExcluded ==
    /\ filtered.scanned => filtered.instance.phase = "built"
    /\ js.primeKitInstance.phase \in {"null", "built"}

\* C20 witness: a click scanned the built instance of one segment while the
\* loadSegment call of another segment was suspended in its fetch, after an
\* earlier load had failed.
C20_Witness ==
    /\ filtered.by = "click" /\ filtered.scanned
    /\ \E i \in 1..Len(loads) :
           /\ ~loads[i].settled
           /\ loads[i].segmentId # filtered.instance.segment
    /\ \E i \in 1..Len(loads) :
           loads[i].settled /\ loads[i].segmentId \in {"BrandB", "BrandC"}

\* The load of the most recently selected segment has failed.
LastLoadFailed == Len(loads) > 0 /\ loads[Len(loads)].failed

\* C21: load errors block filtering.  Whenever the load of the most recently
\* selected segment has failed, handleFilter performs no scan: the page is
\* not ready to filter on older or partial data until a later selection
\* loads, under every interleaving of overlapping loadSegment calls.
C21_LoadErrorsBlockFiltering ==
    LastLoadFailed => ~ready_to_filter(js)

\* What holds of C21: a page that is ready to filter although the most
\* recent load failed holds the instance of an earlier loadSegment call.
C21_BlockedWithoutOverlap ==
    (LastLoadFailed /\ js.primeKitInstance.segment \notin
         {loads[i].segmentId : i \in 1..(Len(loads) - 1)})
        => ~ready_to_filter(js)

\* Every loadSegment call made so far has settled.
AllSettled == \A i \in 1..Len(loads) : loads[i].settled

\* C24: last selection wins.  Once all overlapping loadSegment calls have
\* settled, the instance and the data the page holds belong to the segment
\* named by currentSegmentId, the most recent selection.
C24_LastSelectionWins ==
    AllSettled =>
        /\ js.primeKitInstance.phase # "null"
               => js.primeKitInstance.segment = js.currentSegmentId
        /\ js.currentInventoryData # "null"
               => js.currentInventoryData = js.currentSegmentId
        /\ js.currentPrimesData # "null"
               => js.currentPrimesData = js.currentSegmentId

\* What holds of C24: currentSegmentId is the most recent selection.
C24_CurrentSegmentIsLastSelection ==
    Len(loads) > 0 => js.currentSegmentId = loads[Len(loads)].segmentId

\* The items of the dataset that are not malformed, in input order.
InputRecords ==
    SelectSeq(dataset.doc.items, LAMBDA it : ~IsMalformed(it))

\* The record's product of dictionary numbers exceeds the word.
Overflows(dict, item) == Product(ListedNumbers(dict, item)) > max_val

\* C22: after a successful initializeFromJson on an array the store holds
\* exactly one entry, in input order, for each input record that is an object
\* with an id and an attributes section; a record whose product overflows is
\* stored too, with the sentinel SFI 1.
C22_StoreHoldsEveryRecord ==
    (Rebuilt /\ ~call.threw /\ dataset.doc.form = "array") =>
        /\ Len(internal_sku_data_) = Len(InputRecords)
        /\ \A i \in 1..Len(InputRecords) :
               i <= Len(internal_sku_data_) =>
                   /\ internal_sku_data_[i].id = InputRecords[i].id
                   /\ Overflows(attribute_prime_map, InputRecords[i])
                          => internal_sku_data_[i].sfi = 1

\* C22 over the records whose product fits the word: the store holds exactly
\* one entry for each of them, in input order.
C22_StoreHoldsEveryFittingRecord ==
    (Rebuilt /\ ~call.threw /\ dataset.doc.form = "array") =>
        LET fitting == SelectSeq(InputRecords,
                           LAMBDA it : ~Overflows(attribute_prime_map, it))
        IN /\ Len(internal_sku_data_) = Len(fitting)
           /\ \A i \in 1..Len(fitting) : internal_sku_data_[i].id = fitting[i].id

\* C23: on one instance, after any sequence of initializePrimesFromJson and
\* initializeFromJson calls, every SFI in the store is the encoding of its
\* record under the dictionary currently loaded: a later dictionary load
\* leaves no SFI computed from a superseded dictionary.
C23_StoreFollowsDictionary ==
    dataset.loaded =>
        \A item \in DatasetRecordsIn :
            (/\ item.id \in StoreIds
             /\ ~Overflows(attribute_prime_map, item))
                => StoredSfis(item.id)
                       = {Product(ListedNumbers(attribute_prime_map, item))}

\* The numbers of a dictionary.
NumbersIn(dict) == {dict[p[1]][p[2]] : p \in PairsOf(dict)}

\* C25: every SFI is square-free.  Under a dictionary that maps distinct
\* (key, value) pairs to distinct primes, each prime divides a stored SFI at
\* most once, also for a record that lists a value more than once.
C25_StoredSfiSquareFree ==
    (StoreBuilt /\ DistinctPrimes(attribute_prime_map)) =>
        \A j \in 1..Len(internal_sku_data_) :
            \A n \in NumbersIn(attribute_prime_map) :
                internal_sku_data_[j].sfi % (n * n) # 0

\* The sequence lists no value twice.
NoRepeats(values) ==
    \A i, j \in 1..Len(values) : values[i] = values[j] => i = j

\* C25 over the records that list no value twice.
C25_SquareFreeWithoutRepeats ==
    (StoreBuilt /\ DistinctPrimes(attribute_prime_map)) =>
        \A item \in DatasetRecordsIn :
            (\A i \in 1..Len(FilterKeys) :
                 NoRepeats(ListedValuesOf(item, FilterKeys[i])))
                => \A sfi \in StoredSfis(item.id) :
                       \A n \in NumbersIn(attribute_prime_map) : sfi % (n * n) # 0

====
